---- MODULE Spec2Model ----
(***************************************************************************)
(* LiveTrackBot: the polling loop that diffs successive snapshots of the   *)
(* live-tracking source against a per-pilot watermark and posts one        *)
(* message per new point.                                                  *)
(*                                                                         *)
(* The repository holds two revisions of the loop:                         *)
(*   bot     LivetrackBot.run   (bot.py, with pilot.py / point.py)         *)
(*   legacy  run                (livetrackbot.py, module-level functions)  *)
(* Both are modelled, and both are driven by the same clock, the same      *)
(* fetch results and the same Notifier outcomes.  The state of a loop is   *)
(* one record whose fields are the locals of run() and the metrics.        *)
(***************************************************************************)
EXTENDS Integers, Sequences, FiniteSets, TLC

(***************************************************************************)
(* Bounds of the model.                                                    *)
(***************************************************************************)
MaxCycles   == 2     \* poll cycles of one run
MaxFaults   == 1     \* failures of the fetch and of the Notifier in one run
MaxDay      == 2     \* UTC dates 1..MaxDay (date.min is 0)
DeepSamples == 3     \* samples of the one pilot of the "deep" world
WideSamples == 2     \* samples, over all pilots, of the "pair" and "tags" worlds
FrameSamples == 3    \* samples, over both pilots, of the "frame" world
MaxBadFields == 2    \* fields of a sample record that are absent or of another type

Names == {"Han_Solo", "Yoda"}

\* Msg values of the source.  "UNLIMITED-TRACK" is the ordinary track point,
\* "ok" differs from "OK" in case only.
Tags == {"OK", "HELP", "MOVE", "CUSTOM", "START", "OFF", "UNLIMITED-TRACK", "ok"}

Dates   == 1..MaxDay
DateMin == 0

(***************************************************************************)
(* A run happens in one of four worlds, which bound what the source        *)
(* reports: many samples of one pilot, two pilots, every Msg value, or     *)
(* two pilots with several landings on one date.                           *)
(***************************************************************************)
Worlds == {"deep", "pair", "tags", "frame"}

WorldNames(w) ==
    CASE w = "deep" -> {"Han_Solo"} [] w \in {"pair", "frame"} -> Names
      [] OTHER -> {"Yoda"}

WorldTags(w) ==
    CASE w = "deep" -> {"OK", "UNLIMITED-TRACK"}
      [] w = "pair" -> {"START", "OFF", "UNLIMITED-TRACK"}
      [] w = "frame" -> {"OK"}
      [] OTHER      -> Tags

WorldSamples(w) ==
    CASE w = "deep" -> DeepSamples [] w = "frame" -> FrameSamples [] OTHER -> WideSamples

WorldTimes(w) == IF w = "frame" THEN 1..(FrameSamples - 1) ELSE 1..WorldSamples(w)

\* In the "tags" and "frame" worlds the run lies within one UTC date.
WorldDates(w) == IF w \in {"tags", "frame"} THEN {1} ELSE Dates

FetchOutcomes  == {"ok", "RequestException", "JSONDecodeError"}
SendOutcomes   == {"ok", "TimedOut", "BadRequest"}
DeleteOutcomes == {"ok", "BadRequest", "TimedOut"}

Revisions == {"bot", "legacy"}

VARIABLES
    world,     \* the world of this run
    source,    \* the samples the tracking site holds of each pilot
    today,     \* datetime.utcnow().date()
    phase,     \* position of the loops in the body of `while True`
    data,      \* the value get_json() returned in this cycle
    todo,      \* pilots of data.items() not yet iterated
    cycles,    \* cycles started
    faults,    \* failures of the fetch and of the Notifier so far
    bot,       \* LivetrackBot.run
    legacy,    \* livetrackbot.run
    call       \* a call of Point.format_date or Pilot.get_display_url

vars == <<world, source, today, phase, data, todo, cycles, faults, bot, legacy,
          call>>

NoCall == [fn |-> "none"]

NoData == [kind |-> "None", pilots |-> [n \in {} |-> 0]]

(***************************************************************************)
(* Helpers.                                                                *)
(***************************************************************************)
Max(a, b) == IF a >= b THEN a ELSE b

MostSamples == Max(Max(DeepSamples, WideSamples), FrameSamples)

Put(f, k, v) == [n \in DOMAIN f \cup {k} |-> IF n = k THEN v ELSE f[n]]

EmptyDict == [n \in {} |-> 0]

(***************************************************************************)
(* Point: the fields of a sample record the loop reads.  spotId is the     *)
(* source's id of the sample.                                              *)
(***************************************************************************)
Sample(msg, t, id) == [Msg |-> msg, unixTime |-> t, spotId |-> id]

Point(v) == [Msg |-> v.Msg, unixTime |-> v.unixTime, spotId |-> v.spotId]

(***************************************************************************)
(* Pilot: the dataclass of each revision and the keyword arguments both    *)
(* run() functions construct it with.  The generated __init__ raises       *)
(* TypeError when a field without default is not supplied.                 *)
(***************************************************************************)
\* Mutant: the Pilot of bot.py has the two fields of the Pilot of livetrackbot.py.
PilotFieldsWithoutHome(rev) == {"name", "last_point"}

PilotFields(rev) ==
    IF rev = "bot" THEN {"name", "last_point", "home"} ELSE {"name", "last_point"}

PilotArgs == {"name", "last_point"}

PilotInit(rev) == PilotFields(rev) \subseteq PilotArgs

(***************************************************************************)
(* The state of one loop.  sent, announced, deletes and cur are history    *)
(* variables: the send attempts since the last rollover, the samples       *)
(* announced before it, the delete requests of the last delete_messages    *)
(* call, and what the last iteration of `for pilot, points` computed;       *)
(* fetched is how the get_json call of this cycle ended and exc the         *)
(* exception that left run(), if one did; rolledOn is the dates on which   *)
(* the rollover block was entered.                                         *)
(***************************************************************************)
InitLoop(rev) ==
    [rev                 |-> rev,
     alive               |-> TRUE,
     pilots              |-> EmptyDict,
     messages            |-> <<>>,
     last_update         |-> DateMin,
     errors_total        |-> 0,
     messages_send_total |-> 0,
     pilots_flying       |-> 0,
     requests_total      |-> 0,
     sent                |-> <<>>,
     announced           |-> {},
     deletes             |-> 0,
     rolled              |-> <<>>,
     rolledOn            |-> <<>>,
     cur                 |-> <<>>,
     fetched             |-> "",
     exc                 |-> ""]

\* An exception nobody catches leaves run(): the process ends.
Raise(st, exc) == [st EXCEPT !.alive = FALSE, !.exc = exc]

\* prometheus Counter.inc / Gauge.inc / Gauge.dec; livetrackbot.py has no metrics.
Inc(st, metric) == IF st.rev = "bot" THEN [st EXCEPT ![metric] = @ + 1] ELSE st

Dec(st, metric) == IF st.rev = "bot" THEN [st EXCEPT ![metric] = @ - 1] ELSE st

(***************************************************************************)
(* send_message inside messages.append(...): the attempt is made, a        *)
(* TimedOut is caught and None is returned and appended, any other         *)
(* telegram error propagates.                                              *)
(***************************************************************************)
send_message(st, entry, out) ==
    LET tried == [st EXCEPT !.sent = Append(@, entry)]
    IN  CASE out = "ok" ->
               Inc([tried EXCEPT !.messages = Append(@, "Message")],
                   "messages_send_total")
          [] out = "TimedOut" ->
               [Inc(tried, "errors_total") EXCEPT !.messages = Append(@, "None")]
          [] OTHER -> Raise(tried, out)

\* Mutant: the elif for the alerts tests "HELP" only.
ClassifyHelpOnly(msg) ==
    CASE msg = "OK"    -> "Landed"
      [] msg = "HELP"  -> "Alert"
      [] msg = "START" -> "ResumedTracking"
      [] msg = "OFF"   -> "TrackingStopped"
      [] OTHER         -> "Ignored"

(***************************************************************************)
(* The if/elif chain on point.msg.                                         *)
(***************************************************************************)
Classify(msg) ==
    CASE msg = "OK"                        -> "Landed"
      [] msg \in {"HELP", "MOVE", "CUSTOM"} -> "Alert"
      [] msg = "START"                     -> "ResumedTracking"
      [] msg = "OFF"                       -> "TrackingStopped"
      [] OTHER                             -> "Ignored"

Entry(p, kind, point) ==
    [pilot |-> p, kind |-> kind, spotId |-> point.spotId,
     unixTime |-> point.unixTime, Msg |-> point.Msg]

\* One iteration of `for point in unseen_points`.
ProcessPoint(st, p, point, out) ==
    LET kind == Classify(point.Msg)
        s1   == send_message(st, Entry(p, kind, point), out)
    IN  CASE kind = "Ignored" -> st
          [] ~s1.alive        -> s1
          [] kind \in {"Landed", "TrackingStopped"} -> Dec(s1, "pilots_flying")
          [] kind = "ResumedTracking"               -> Inc(s1, "pilots_flying")
          [] OTHER -> s1

RECURSIVE ForPoints(_, _, _, _, _)
ForPoints(st, p, unseen, outs, i) ==
    IF i > Len(unseen) \/ ~st.alive THEN st
    ELSE ForPoints(ProcessPoint(st, p, unseen[i], outs[i + 1]), p, unseen, outs, i + 1)

(***************************************************************************)
(* sorted([...], key=lambda x: x.unix_time): a stable sort by unix time.   *)
(***************************************************************************)
RECURSIVE Insert(_, _)
Insert(sorted, x) ==
    IF sorted = <<>> THEN <<x>>
    ELSE IF sorted[Len(sorted)].unixTime <= x.unixTime THEN Append(sorted, x)
    ELSE Append(Insert(SubSeq(sorted, 1, Len(sorted) - 1), x), sorted[Len(sorted)])

\* Mutant: sorted(..., reverse=True).
RECURSIVE SortedNewestFirst(_)
SortedNewestFirst(s) ==
    IF s = <<>> THEN <<>>
    ELSE LET rest == SortedNewestFirst(SubSeq(s, 2, Len(s)))
             newer == SelectSeq(rest, LAMBDA x : x.unixTime > s[1].unixTime)
             older == SelectSeq(rest, LAMBDA x : x.unixTime <= s[1].unixTime)
         IN  newer \o <<s[1]>> \o older

\* Mutant: the list is left in payload order.
Unsorted(s) == s

RECURSIVE SortedByUnixTime(_)
SortedByUnixTime(s) ==
    IF s = <<>> THEN <<>>
    ELSE Insert(SortedByUnixTime(SubSeq(s, 1, Len(s) - 1)), s[Len(s)])

\* points.items() without "Count", in payload order: key k is pts[k + 1].
Items(points) == points.pts

\* Mutant: the watermark sample itself counts as new.
NewerOrEqual(v, last_point) == v.unixTime >= last_point.unixTime

Newer(v, last_point) == v.unixTime > last_point.unixTime

unseen_points(points, last_point) ==
    LET keep == SelectSeq(Items(points), LAMBDA v : Newer(v, last_point))
    IN  SortedByUnixTime([i \in 1..Len(keep) |-> Point(keep[i])])

\* points["Count"] and points[str(points["Count"])]: a KeyError when the entry
\* has no "Count" or "Count" names no key of it.
HasCount(points) == "Count" \in DOMAIN points

HasKey(points, k) == k \in 0..(Len(points.pts) - 1)

\* Point.__init__ reads every field of the sample: a KeyError when one is absent.
Complete(v) == {"Msg", "unixTime", "spotId"} \subseteq DOMAIN v

\* Mutant: the first key of the payload instead of str(Count).
KeyZero(points) == 0

FirstKey(points) == points.Count

FirstPoint(points) == points.pts[FirstKey(points) + 1]

(***************************************************************************)
(* `if pilot not in pilots:` ... the new Pilot, its message, the gauge.    *)
(***************************************************************************)
NewPilot(st, p, points, out) ==
    CASE ~HasCount(points)                   -> Raise(st, "KeyError")
      [] ~HasKey(points, FirstKey(points))   -> Raise(st, "KeyError")
      [] ~Complete(FirstPoint(points))       -> Raise(st, "KeyError")
      [] ~PilotInit(st.rev)                  -> Raise(st, "TypeError")
      [] OTHER ->
           LET first == Point(FirstPoint(points))
               s1    == [st EXCEPT !.pilots = Put(@, p, first)]
               s2    == send_message(s1, Entry(p, "TookOff", first), out)
           IN  IF s2.alive THEN Inc(s2, "pilots_flying") ELSE s2

\* The comprehension of unseen_points reads v["unixTime"] of every sample.
Comparable(points) ==
    \A k \in 1..Len(points.pts) : "unixTime" \in DOMAIN points.pts[k]

\* Mutant: a pilot whose newest point is tagged OK is dropped from the table.
UpdateDroppingLanded(st, p, unseen) ==
    IF unseen = <<>> THEN st
    ELSE IF unseen[Len(unseen)].Msg = "OK"
         THEN [st EXCEPT !.pilots = [n \in DOMAIN @ \ {p} |-> @[n]]]
         ELSE [st EXCEPT !.pilots[p] = unseen[Len(unseen)]]

\* Mutant: the last_point of every pilot of the table is replaced.
UpdateEveryPilot(st, p, unseen) ==
    IF unseen = <<>> THEN st
    ELSE [st EXCEPT !.pilots = [n \in DOMAIN @ |-> unseen[Len(unseen)]]]

\* Mutant: unseen_points[0] instead of unseen_points[-1].
UpdateToFirstPoint(st, p, unseen) ==
    IF unseen = <<>> THEN st ELSE [st EXCEPT !.pilots[p] = unseen[1]]

\* `if unseen_points: pilots[pilot].last_point = unseen_points[-1]`
UpdateLastPoint(st, p, unseen) ==
    IF unseen = <<>> THEN st ELSE [st EXCEPT !.pilots[p] = unseen[Len(unseen)]]

\* The body of `for pilot, points in data.items()`.
ForPilot(st, p, points, outs) ==
    LET known  == p \in DOMAIN st.pilots
        s1     == IF known THEN st ELSE NewPilot(st, p, points, outs[1])
        before == s1.pilots[p]
        unseen == unseen_points(points, before)
        s2     == ForPoints(s1, p, unseen, outs, 1)
        s3     == UpdateLastPoint(s2, p, unseen)
        seen   == [pilot |-> p, created |-> ~known, points |-> points,
                   before |-> before, unseen |-> unseen, done |-> s2.alive]
    IN  CASE ~st.alive -> st
          [] ~s1.alive -> s1
          [] ~Comparable(points) -> Raise(s1, "KeyError")
          [] ~s2.alive -> [s2 EXCEPT !.cur = <<seen>>]
          [] OTHER     -> [s3 EXCEPT !.cur = <<seen>>]

(***************************************************************************)
(* delete_messages: one deleteMessage request per entry that is a Message; *)
(* None (a send that timed out) has no .chat and raises AttributeError,    *)
(* which is caught like BadRequest.  Any other telegram error propagates.  *)
(***************************************************************************)
RECURSIVE delete_messages(_, _, _)
delete_messages(st, douts, i) ==
    IF i > Len(st.messages) \/ ~st.alive THEN st
    ELSE LET msg == st.messages[i]
             req == [st EXCEPT !.deletes = @ + 1]
         IN  CASE msg = "None"           -> delete_messages(st, douts, i + 1)
               [] douts[i] = "TimedOut"  -> Raise(req, "TimedOut")
               [] OTHER                  -> delete_messages(req, douts, i + 1)

Attempted(st) == {<<st.sent[i].pilot, st.sent[i].spotId>> : i \in 1..Len(st.sent)}

\* Mutant: the block is entered whenever the two dates differ.
DueWhenDifferent(last_update, d) == last_update # d

\* `last_update < datetime.utcnow().date()`
Due(last_update, d) == last_update < d

\* `if last_update < datetime.utcnow().date():` and its block; d1 and d2 are
\* the two readings of the clock.
Rollover(st, d1, d2, douts) ==
    LET cleared == [st EXCEPT !.pilots = EmptyDict, !.deletes = 0,
                              !.announced = @ \cup Attempted(st), !.sent = <<>>,
                              !.rolledOn = Append(@, d1)]
        deleted == delete_messages(cleared, douts, 1)
        entries == Len(st.messages)
    IN  CASE ~st.alive             -> st
          [] ~Due(st.last_update, d1) -> [st EXCEPT !.rolled = <<>>]
          [] ~deleted.alive        -> [deleted EXCEPT !.rolled = <<entries>>]
          [] OTHER -> [deleted EXCEPT !.messages = <<>>, !.last_update = d2,
                                      !.rolled = <<entries>>]

\* Mutant: a failed request is logged and not counted.
get_jsonUncounted(st, outcome) ==
    IF st.alive THEN [st EXCEPT !.fetched = outcome] ELSE st

(***************************************************************************)
(* get_json: the counters it moves; the value returned is the action's.    *)
(***************************************************************************)
get_json(st, outcome) ==
    LET called == [st EXCEPT !.fetched = outcome]
    IN  CASE ~st.alive                   -> st
          [] outcome = "ok"              -> Inc(called, "requests_total")
          [] outcome = "JSONDecodeError" ->
               Inc(Inc(called, "requests_total"), "errors_total")
          [] OTHER                       -> Inc(called, "errors_total")

Sleep(st) ==
    IF st.alive THEN [st EXCEPT !.cur = <<>>, !.rolled = <<>>, !.fetched = ""] ELSE st

(***************************************************************************)
(* The source and the snapshot it serves.  The source of sample k of a     *)
(* pilot is pts[k + 1]; "Count" is set by the server in each response.     *)
(***************************************************************************)
Reported == {p \in Names : source[p] # <<>>}

Total == Len(source["Han_Solo"]) + Len(source["Yoda"])

Keys(p) == 0..(Len(source[p]) - 1)

Snapshot(counts) ==
    [kind   |-> "dict",
     pilots |-> [p \in DOMAIN counts |-> [pts |-> source[p], Count |-> counts[p]]]]

\* `if data:` is taken by a dict with entries and by any other non-empty value.
Truthy(d) == (d.kind = "dict" /\ DOMAIN d.pilots # {}) \/ d.kind = "list"

(***************************************************************************)
(* Payloads that decode as JSON and are not a well-formed snapshot: a      *)
(* non-empty list, a pilot entry without "Count", a "Count" that names no  *)
(* key of the entry, a sample without "unixTime".                          *)
(***************************************************************************)
NoFlaw == [pilot |-> "", kind |-> "none", key |-> 0]

Flaws ==
    {NoFlaw, [pilot |-> "", kind |-> "list", key |-> 0]}
      \cup {[pilot |-> p, kind |-> k, key |-> 0] :
                p \in Names, k \in {"NoCount", "BadCount"}}
      \cup {[pilot |-> p, kind |-> "NoUnixTime", key |-> i] :
                p \in Names, i \in 0..(MostSamples - 1)}

Flawed(points, flaw) ==
    CASE flaw.kind = "NoCount"  -> [pts |-> points.pts]
      [] flaw.kind = "BadCount" -> [points EXCEPT !.Count = Len(points.pts)]
      [] OTHER -> [points EXCEPT !.pts[flaw.key + 1] =
                      [Msg |-> @.Msg, spotId |-> @.spotId]]

Payload(counts, flaw) ==
    LET whole == Snapshot(counts)
    IN  CASE flaw.kind = "none" -> whole
          [] flaw.kind = "list" -> [kind |-> "list", pilots |-> EmptyDict]
          [] OTHER -> [whole EXCEPT !.pilots[flaw.pilot] = Flawed(@, flaw)]

\* `for pilot, points in data.items()`: a list has no items().
ForData(st, d) ==
    IF st.alive /\ d.kind = "list" THEN Raise(st, "AttributeError") ELSE st

Failures(outs) == Cardinality({i \in DOMAIN outs : outs[i] # "ok"})

Init ==
    /\ world \in Worlds
    /\ source = [p \in Names |-> <<>>]
    /\ today = 1
    /\ phase = "top"
    /\ data = NoData
    /\ todo = {}
    /\ cycles = 0
    /\ faults = 0
    /\ bot = InitLoop("bot")
    /\ legacy = InitLoop("legacy")
    /\ call = NoCall

\* The source reports one more sample of a pilot.
Report(p, msg, t) ==
    /\ phase = "top"
    /\ cycles < MaxCycles
    /\ p \in WorldNames(world)
    /\ msg \in WorldTags(world)
    /\ t \in WorldTimes(world)
    /\ Total < WorldSamples(world)
    /\ source' = [source EXCEPT ![p] = Append(@, Sample(msg, t, Len(@)))]
    /\ UNCHANGED <<call, world, today, phase, data, todo, cycles, faults, bot, legacy>>

\* The system clock moves to another date.
Clock(d) ==
    /\ phase = "top"
    /\ cycles < MaxCycles
    /\ d \in WorldDates(world) \ {today}
    /\ today' = d
    /\ UNCHANGED <<call, world, source, phase, data, todo, cycles, faults, bot, legacy>>

\* Top of `while True`: the rollover check and, when it is due, the rollover.
RolloverStep(d2, douts) ==
    /\ phase = "top"
    /\ cycles < MaxCycles
    /\ bot.alive \/ legacy.alive
    /\ d2 \in {today, today + 1} \cap WorldDates(world)
    /\ faults + Failures(douts) <= MaxFaults
    /\ bot' = Rollover(bot, today, d2, douts)
    /\ legacy' = Rollover(legacy, today, d2, douts)
    /\ today' = d2
    /\ cycles' = cycles + 1
    /\ faults' = faults + Failures(douts)
    /\ phase' = "fetch"
    /\ UNCHANGED <<call, world, source, data, todo>>

\* data = get_json(); `if data:`
FetchStep(outcome, counts, flaw) ==
    /\ phase = "fetch"
    /\ bot.alive \/ legacy.alive
    /\ outcome # "ok" => faults < MaxFaults /\ DOMAIN counts = {} /\ flaw = NoFlaw
    /\ flaw # NoFlaw => faults < MaxFaults
    /\ flaw.kind = "list" => DOMAIN counts = {}
    /\ flaw.kind \in {"NoCount", "BadCount", "NoUnixTime"} =>
           flaw.pilot \in DOMAIN counts /\ flaw.key \in Keys(flaw.pilot)
    /\ data' = IF outcome = "ok" THEN Payload(counts, flaw) ELSE NoData
    /\ bot' = ForData(get_json(bot, outcome), data')
    /\ legacy' = ForData(get_json(legacy, outcome), data')
    /\ todo' = IF Truthy(data') THEN DOMAIN data'.pilots ELSE {}
    /\ phase' = IF Truthy(data') THEN "for" ELSE "sleep"
    /\ faults' = IF outcome = "ok" /\ flaw = NoFlaw THEN faults ELSE faults + 1
    /\ UNCHANGED <<call, world, source, today, cycles>>

\* One iteration of `for pilot, points in data.items()`.
PilotStep(p, outs) ==
    /\ phase = "for"
    /\ bot.alive \/ legacy.alive
    /\ p \in todo
    /\ faults + Failures(outs) <= MaxFaults
    /\ bot' = ForPilot(bot, p, data.pilots[p], outs)
    /\ legacy' = ForPilot(legacy, p, data.pilots[p], outs)
    /\ todo' = todo \ {p}
    /\ phase' = IF todo' = {} THEN "sleep" ELSE "for"
    /\ faults' = faults + Failures(outs)
    /\ UNCHANGED <<call, world, source, today, data, cycles>>

\* time.sleep(SLEEP_TIME)
SleepStep ==
    /\ phase = "sleep"
    /\ bot.alive \/ legacy.alive
    /\ bot' = Sleep(bot)
    /\ legacy' = Sleep(legacy)
    /\ data' = NoData
    /\ phase' = "top"
    /\ UNCHANGED <<call, world, source, today, todo, cycles, faults>>

Next ==
    \/ \E p \in Names, msg \in Tags, t \in 1..MostSamples :
          Report(p, msg, t)
    \/ \E d \in Dates : Clock(d)
    \/ \E d2 \in Dates, douts \in [1..Max(Len(bot.messages), Len(legacy.messages))
                                     -> DeleteOutcomes] : RolloverStep(d2, douts)
    \/ \E outcome \in FetchOutcomes, visible \in SUBSET Reported :
          \E counts \in [visible -> 0..(MostSamples - 1)] :
             /\ \A p \in visible : counts[p] \in Keys(p)
             /\ \E flaw \in Flaws : FetchStep(outcome, counts, flaw)
    \/ \E p \in Names : \E outs \in [1..(1 + Len(source[p])) -> SendOutcomes] :
          PilotStep(p, outs)
    \/ SleepStep

Spec == Init /\ [][Next]_vars

(***************************************************************************)
(* Strings are sequences of tokens: a run of digits, with its width and    *)
(* its value, or any other piece of text.                                  *)
(***************************************************************************)
Num(w, v) == [c |-> "N", w |-> w, v |-> v]

Sym(c) == [c |-> c, w |-> 0, v |-> 0]

Str(text) == [type |-> "str", text |-> text]

IsNum(t, widths, values) == t.c = "N" /\ t.w \in widths /\ t.v \in values

IsSym(t, cs) == t.c \in cs

DaysIn(y, m) ==
    CASE m \in {4, 6, 9, 11} -> 30
      [] m = 2 -> IF y % 4 = 0 /\ (y % 100 # 0 \/ y % 400 = 0) THEN 29 ELSE 28
      [] OTHER -> 31

\* The directive %z: +HHMM, +HH:MM (either sign) or Z.
UtcOffset(z) ==
    \/ Len(z) = 1 /\ IsSym(z[1], {"Z"})
    \/ /\ Len(z) = 2 /\ IsSym(z[1], {"+", "-"})
       /\ z[2].c = "N" /\ z[2].w = 4 /\ z[2].v % 100 \in 0..59
    \/ /\ Len(z) = 4 /\ IsSym(z[1], {"+", "-"})
       /\ IsNum(z[2], {2}, 0..99) /\ IsSym(z[3], {":"}) /\ IsNum(z[4], {2}, 0..59)

(***************************************************************************)
(* datetime.strptime(text, format) for the two formats of format_date.     *)
(* "%Y-%m-%dT%H:%M:%S%z" matches the whole text, letters in either case,   *)
(* and the date must exist; "%Y-%m-%dT%H:%M:%S%" ends in a stray % and is  *)
(* rejected, with a ValueError, whatever the text.                         *)
(***************************************************************************)
strptime(text, format) ==
    IF format # "%Y-%m-%dT%H:%M:%S%z" THEN FALSE
    ELSE /\ Len(text) >= 12
         /\ IsNum(text[1], {4}, 1..9999)
         /\ IsSym(text[2], {"-"})
         /\ IsNum(text[3], {1, 2}, 1..12)
         /\ IsSym(text[4], {"-"})
         /\ IsNum(text[5], {1, 2}, 1..31)
         /\ IsSym(text[6], {"T", "t"})
         /\ IsNum(text[7], {1, 2}, 0..23)
         /\ IsSym(text[8], {":"})
         /\ IsNum(text[9], {1, 2}, 0..59)
         /\ IsSym(text[10], {":"})
         /\ IsNum(text[11], {1, 2}, 0..61)
         /\ UtcOffset(SubSeq(text, 12, Len(text)))
         /\ text[5].v <= DaysIn(text[1].v, text[3].v)
         /\ text[11].v <= 59

\* strftime("%Y-%m-%d %H:%M:%S UTC") of the parsed value.
strftime(text) ==
    <<Num(4, text[1].v), Sym("-"), Num(2, text[3].v), Sym("-"), Num(2, text[5].v),
      Sym(" "), Num(2, text[7].v), Sym(":"), Num(2, text[9].v), Sym(":"),
      Num(2, text[11].v), Sym(" UTC")>>

Return(value) == [kind |-> "return", value |-> value]

Raised(exc) == [kind |-> "raise", value |-> exc]

(***************************************************************************)
(* Point.format_date.  strptime raises TypeError, which format_date does   *)
(* not catch, when date_time is not a str; Point.__init__ stores whatever  *)
(* the sample holds under "DateTime".                                      *)
(***************************************************************************)
format_date(date_time) ==
    CASE date_time.type # "str" -> Raised("TypeError")
      [] strptime(date_time.text, "%Y-%m-%dT%H:%M:%S%z") ->
           Return(Str(strftime(date_time.text)))
      [] strptime(date_time.text, "%Y-%m-%dT%H:%M:%S%") ->
           Return(Str(strftime(date_time.text)))
      [] OTHER -> Return(date_time)

(***************************************************************************)
(* The DateTime values of the model: the timestamp of the test with one    *)
(* field varied at a time in month, day, hour, seconds and offset, a few   *)
(* strings of another shape, and the JSON values that are not strings.     *)
(***************************************************************************)
Months  == {Num(2, 4), Num(1, 4), Num(2, 2), Num(2, 12), Num(2, 13), Num(2, 0)}

Days    == {Num(2, 15), Num(1, 5), Num(2, 29), Num(2, 31), Num(2, 32)}

Hours   == {Num(2, 11), Num(2, 24)}

Seconds == {Num(2, 48), Num(2, 60)}

Offsets ==
    {<<Sym("+"), Num(4, 0)>>, <<Sym("+"), Num(4, 200)>>, <<Sym("-"), Num(4, 130)>>,
     <<Sym("+"), Num(4, 60)>>, <<Sym("+"), Num(2, 2), Sym(":"), Num(2, 0)>>,
     <<Sym("Z")>>, <<Sym("z")>>, <<>>, <<Sym("+"), Num(3, 0)>>,
     <<Sym("+"), Num(4, 0), Sym(" ")>>}

Timestamp(m, d, h, sec, z) ==
    <<Num(4, 2022), Sym("-"), m, Sym("-"), d, Sym("T"), h, Sym(":"), Num(2, 52),
      Sym(":"), sec>> \o z

DateTimes ==
    {Str(Timestamp(m, d, h, sec, z)) :
        m \in Months, d \in Days, h \in Hours, sec \in Seconds, z \in Offsets}
      \cup {Str(<<>>), Str(<<Sym("junk")>>), Str(<<Num(10, 1650023568)>>),
            Str(<<Num(4, 2022), Sym("-"), Num(2, 4), Sym("-"), Num(2, 15)>>)}
      \cup {[type |-> "NoneType"], [type |-> "int"]}

InitFormatDate ==
    /\ world = "deep"
    /\ source = [p \in Names |-> <<>>]
    /\ today = 1
    /\ phase = "top"
    /\ data = NoData
    /\ todo = {}
    /\ cycles = 0
    /\ faults = 0
    /\ bot = InitLoop("bot")
    /\ legacy = InitLoop("legacy")
    /\ \E dt \in DateTimes : call = [fn |-> "format_date", date_time |-> dt]

FormatDateStep ==
    /\ call.fn = "format_date"
    /\ call' = [fn |-> "format_date done", date_time |-> call.date_time,
                result |-> format_date(call.date_time)]
    /\ UNCHANGED <<world, source, today, phase, data, todo, cycles, faults, bot, legacy>>

NextFormatDate == FormatDateStep

SpecFormatDate == InitFormatDate /\ [][NextFormatDate]_vars

(***************************************************************************)
(* URLs are sequences of pieces of text: the scheme, "://", the network    *)
(* location, the path segments ("/" and a name each), "?", the query       *)
(* parameters with "&" between them, "#" and the fragment.                 *)
(***************************************************************************)
RECURSIVE IndexOf(_, _, _)
IndexOf(s, x, i) ==
    IF i > Len(s) THEN 0 ELSE IF s[i] = x THEN i ELSE IndexOf(s, x, i + 1)

Before(s, x) == IF IndexOf(s, x, 1) = 0 THEN s ELSE SubSeq(s, 1, IndexOf(s, x, 1) - 1)

After(s, x) ==
    IF IndexOf(s, x, 1) = 0 THEN <<>> ELSE SubSeq(s, IndexOf(s, x, 1) + 1, Len(s))

\* urllib.parse.urlparse: the fragment is what follows the first "#", the
\* query what follows the first "?" before it, the scheme what precedes "://",
\* the network location the piece after it, the path the rest.
urlparse(url) ==
    LET nofrag  == Before(url, "#")
        noquery == Before(nofrag, "?")
        hier    == After(noquery, "://")
    IN  [scheme   |-> Before(noquery, "://"),
         netloc   |-> SubSeq(hier, 1, 1),
         path     |-> SubSeq(hier, 2, Len(hier)),
         query    |-> After(nofrag, "?"),
         fragment |-> After(url, "#")]

\* str.replace(old, ""): every occurrence of old is removed.
Replace(path, old) == SelectSeq(path, LAMBDA seg : seg # old)

\* Mutant: the query of the source URL is not copied.
get_display_urlWithoutQuery(name, url) ==
    LET s == urlparse(url)
    IN  <<"[Tracking](">> \o s.scheme \o <<"://">> \o s.netloc
          \o Replace(s.path, "/json4Others.php") \o <<"?", "hLg=", name, ")">>

(***************************************************************************)
(* Pilot.get_display_url.                                                  *)
(***************************************************************************)
get_display_url(name, url) ==
    LET s   == urlparse(url)
        res == s.scheme \o <<"://">> \o s.netloc
                 \o Replace(s.path, "/json4Others.php") \o <<"?">>
        q   == IF s.query # <<>> THEN res \o s.query \o <<"&">> ELSE res
    IN  <<"[Tracking](">> \o q \o <<"hLg=", name, ")">>

(***************************************************************************)
(* The source URLs of the model, written from their parts.                 *)
(***************************************************************************)
Schemes == {"https", "http"}

Hosts == {"livetrack.gartemann.tech", "localhost:8080"}

Paths ==
    {<<>>, <<"/json4Others.php">>, <<"/live">>, <<"/live", "/json4Others.php">>,
     <<"/json4Others.php", "/live">>, <<"/live", "/map">>}

Queries == {<<>>, <<"jD=2">>, <<"jD=2", "&", "x=1">>, <<"x=1", "&", "jD=2">>}

Fragments == {<<>>, <<"top">>}

PilotNames == {"C-3PO", "Han_Solo"}

UrlParts ==
    [scheme : Schemes, host : Hosts, path : Paths, query : Queries,
     fragment : Fragments]

Url(parts) ==
    <<parts.scheme, "://", parts.host>> \o parts.path
      \o (IF parts.query = <<>> THEN <<>> ELSE <<"?">> \o parts.query)
      \o (IF parts.fragment = <<>> THEN <<>> ELSE <<"#">> \o parts.fragment)

InitDisplayUrl ==
    /\ world = "deep"
    /\ source = [p \in Names |-> <<>>]
    /\ today = 1
    /\ phase = "top"
    /\ data = NoData
    /\ todo = {}
    /\ cycles = 0
    /\ faults = 0
    /\ bot = InitLoop("bot")
    /\ legacy = InitLoop("legacy")
    /\ \E parts \in UrlParts, name \in PilotNames :
          call = [fn |-> "get_display_url", name |-> name, parts |-> parts,
                  url |-> Url(parts)]

DisplayUrlStep ==
    /\ call.fn = "get_display_url"
    /\ call' = [fn |-> "get_display_url done", name |-> call.name,
                parts |-> call.parts, url |-> call.url,
                result |-> get_display_url(call.name, call.url)]
    /\ UNCHANGED <<world, source, today, phase, data, todo, cycles, faults, bot, legacy>>

NextDisplayUrl == DisplayUrlStep

SpecDisplayUrl == InitDisplayUrl /\ [][NextDisplayUrl]_vars

(***************************************************************************)
(* Point.__init__ on its own: the thirteen keys it reads, in the order it  *)
(* reads them, the attribute each is stored under and the type the         *)
(* dataclass declares for it.  A JSON value is modelled by its Python      *)
(* type.  json_dict[key] raises KeyError for an absent key; no value is    *)
(* converted or tested.                                                    *)
(***************************************************************************)
Field(key, attr, type) == [key |-> key, attr |-> attr, type |-> type]

PointFields ==
    <<Field("cumDist", "cum_dist", "str"),
      Field("takeOffDist", "take_off_dist", "str"),
      Field("flightTime", "flight_time", "str"),
      Field("AvgSpeed", "avg_speed", "str"),
      Field("LegSpeed", "leg_speed", "str"),
      Field("LegDist", "leg_dist", "str"),
      Field("Lat", "lat", "float"),
      Field("Lng", "lng", "float"),
      Field("Alt", "alt", "int"),
      Field("Msg", "msg", "str"),
      Field("DateTime", "date_time", "str"),
      Field("unixTime", "unix_time", "int"),
      Field("spotId", "spot_id", "int")>>

PointKeys == {PointFields[i].key : i \in DOMAIN PointFields}

PointAttrs == {PointFields[i].attr : i \in DOMAIN PointFields}

FieldOf(attr) == PointFields[CHOOSE i \in DOMAIN PointFields : PointFields[i].attr = attr]

TypeOf(key) == PointFields[CHOOSE i \in DOMAIN PointFields : PointFields[i].key = key].type

RECURSIVE FirstAbsent(_, _)
FirstAbsent(json_dict, i) ==
    IF i > Len(PointFields) THEN 0
    ELSE IF PointFields[i].key \notin DOMAIN json_dict THEN i
    ELSE FirstAbsent(json_dict, i + 1)

Point__init__(json_dict) ==
    IF FirstAbsent(json_dict, 1) # 0 THEN Raised("KeyError")
    ELSE Return([attr \in PointAttrs |-> json_dict[FieldOf(attr).key]])

(***************************************************************************)
(* The sample records of the model: the record of the test, in which every *)
(* value has the declared type, with up to MaxBadFields of its fields      *)
(* absent or holding a value of another type (a string where a number is   *)
(* declared, null where a string is).                                      *)
(***************************************************************************)
OtherType(type) == IF type = "str" THEN "NoneType" ELSE "str"

SampleRecord(absent, other) ==
    [key \in PointKeys \ absent |->
        IF key \in other THEN OtherType(TypeOf(key)) ELSE TypeOf(key)]

SampleRecords ==
    {SampleRecord(absent, other) :
        absent \in {a \in SUBSET PointKeys : Cardinality(a) <= MaxBadFields},
        other  \in {o \in SUBSET PointKeys : Cardinality(o) <= MaxBadFields}}

InitPoint ==
    /\ world = "deep"
    /\ source = [p \in Names |-> <<>>]
    /\ today = 1
    /\ phase = "top"
    /\ data = NoData
    /\ todo = {}
    /\ cycles = 0
    /\ faults = 0
    /\ bot = InitLoop("bot")
    /\ legacy = InitLoop("legacy")
    /\ \E json_dict \in SampleRecords :
          /\ Cardinality(PointKeys \ DOMAIN json_dict)
                + Cardinality({k \in DOMAIN json_dict : json_dict[k] # TypeOf(k)})
                  <= MaxBadFields
          /\ call = [fn |-> "Point", json_dict |-> json_dict]

PointStep ==
    /\ call.fn = "Point"
    /\ call' = [fn |-> "Point done", json_dict |-> call.json_dict,
                result |-> Point__init__(call.json_dict)]
    /\ UNCHANGED <<world, source, today, phase, data, todo, cycles, faults, bot, legacy>>

NextPoint == PointStep

SpecPoint == InitPoint /\ [][NextPoint]_vars

(***************************************************************************)
(* Vocabulary of the properties.                                           *)
(***************************************************************************)
Loops == {bot, legacy}

MessageTags == {"OK", "HELP", "MOVE", "CUSTOM", "START", "OFF"}

Sends(st, p, id, kinds) ==
    Cardinality({i \in 1..Len(st.sent) :
        st.sent[i].pilot = p /\ st.sent[i].spotId = id /\ st.sent[i].kind \in kinds})

TagKinds == {"Landed", "Alert", "ResumedTracking", "TrackingStopped", "Ignored"}

TagSends(st, p, id) == Sends(st, p, id, TagKinds)

TookOffs(st, p) ==
    Cardinality({i \in 1..Len(st.sent) :
        st.sent[i].pilot = p /\ st.sent[i].kind = "TookOff"})

\* The samples a pilot was created from since the last rollover.
FirstIds(st, p) ==
    {st.sent[i].spotId : i \in {j \in 1..Len(st.sent) :
        st.sent[j].pilot = p /\ st.sent[j].kind = "TookOff"}}

SampleIds == 0..(MostSamples - 1)

\* The iteration of `for pilot, points` a loop has just completed, if any.
Iterated(st) == st.cur # <<>> /\ st.cur[1].done

C2_UnseenPoints ==
    \A st \in Loops :
        st.cur # <<>> =>
            LET c   == st.cur[1]
                u   == c.unseen
                pts == c.points.pts
                wm  == c.before.unixTime
            IN  /\ \A i \in 1..(Len(u) - 1) : u[i].unixTime <= u[i + 1].unixTime
                /\ \A k \in 1..Len(pts) :
                       (pts[k].unixTime > wm) <=> (\E i \in 1..Len(u) : u[i] = pts[k])
                /\ \A i \in 1..Len(u) : \E k \in 1..Len(pts) : u[i] = pts[k]
                /\ Len(u) = Cardinality({k \in 1..Len(pts) : pts[k].unixTime > wm})

\* C2 witness: a known pilot with two new samples that the payload lists in
\* descending order of unix time, and a sample at the watermark.
C2_Witness ==
    /\ legacy.cur # <<>>
    /\ LET c == legacy.cur[1]
       IN  /\ ~c.created
           /\ Len(c.unseen) = 2
           /\ c.unseen[1].unixTime < c.unseen[2].unixTime
           /\ c.unseen[1].spotId > c.unseen[2].spotId
           /\ \E k \in 1..Len(c.points.pts) :
                 c.points.pts[k].unixTime = c.before.unixTime

(***************************************************************************)
(* C3: after an iteration, last_point.unix_time is the greatest unix time  *)
(* of the unseen points, or last_point is unchanged when there were none;  *)
(* and the last_point.unix_time of a pilot that stays in the table never   *)
(* decreases.                                                              *)
(***************************************************************************)
GreatestTime(times) == CHOOSE t \in times : \A x \in times : x <= t

C3_AfterIteration ==
    \A st \in Loops :
        Iterated(st) =>
            LET c     == st.cur[1]
                newer == {c.points.pts[k].unixTime : k \in
                            {j \in 1..Len(c.points.pts) :
                                c.points.pts[j].unixTime > c.before.unixTime}}
            IN  IF newer = {} THEN st.pilots[c.pilot] = c.before
                ELSE st.pilots[c.pilot].unixTime = GreatestTime(newer)

C3_NeverDecreases ==
    /\ \A p \in DOMAIN bot.pilots \cap DOMAIN bot'.pilots :
           bot'.pilots[p].unixTime >= bot.pilots[p].unixTime
    /\ \A p \in DOMAIN legacy.pilots \cap DOMAIN legacy'.pilots :
           legacy'.pilots[p].unixTime >= legacy.pilots[p].unixTime

C3_LastPoint == [](C3_AfterIteration) /\ [][C3_NeverDecreases]_vars

\* C3 witness: an iteration over a known pilot moved last_point past two new
\* samples, the later of which the payload lists first.
C3_Witness ==
    /\ Iterated(legacy)
    /\ LET c == legacy.cur[1]
       IN  /\ ~c.created
           /\ Len(c.unseen) = 2
           /\ c.unseen[1].spotId > c.unseen[2].spotId
           /\ legacy.pilots[c.pilot].unixTime > c.unseen[1].unixTime
           /\ legacy.pilots[c.pilot].unixTime > c.before.unixTime

(***************************************************************************)
(* C4: the last_point of a newly created Pilot is the sample under the key *)
(* str(Count) of its sample set.                                           *)
(***************************************************************************)
C4_FirstSampleIsCount ==
    \A st \in Loops :
        (st.cur # <<>> /\ st.cur[1].created) =>
            LET c == st.cur[1]
            IN  /\ c.before.spotId = c.points.Count
                /\ c.before = c.points.pts[c.points.Count + 1]
                /\ FirstIds(st, c.pilot) = {c.points.Count}

\* C4 witness: a pilot created from key "1" of three samples, which is neither
\* key "0" nor the last key nor the sample with the smallest unix time.
C4_Witness ==
    /\ legacy.cur # <<>>
    /\ LET c == legacy.cur[1]
       IN  /\ c.created
           /\ Len(c.points.pts) = 3
           /\ c.points.Count = 1
           /\ c.before.spotId = 1
           /\ c.points.pts[1].unixTime < c.before.unixTime
           /\ c.points.pts[1] # c.before /\ c.points.pts[3] # c.before

(***************************************************************************)
(* C5: every pilot of the snapshot that LivetrackBot.run has iterated is   *)
(* in the table and has had exactly one TookOff send attempt since the     *)
(* last rollover, and the gauge counts the take-offs.                      *)
(***************************************************************************)
IteratedPilots == IF Truthy(data) THEN DOMAIN data.pilots \ todo ELSE {}

KindCount(st, kinds) == Cardinality({i \in 1..Len(st.sent) : st.sent[i].kind \in kinds})

C5_NewPilotTookOff ==
    /\ \A p \in IteratedPilots :
          p \in DOMAIN bot.pilots /\ TookOffs(bot, p) = 1
    /\ IteratedPilots # {} => bot.pilots_flying >= 1 - KindCount(bot, {"Landed", "TrackingStopped"})

(***************************************************************************)
(* C6: the sample a new pilot is created from is announced as TookOff and  *)
(* has no send attempt of a tag-based kind before the next rollover.       *)
(***************************************************************************)
C6_FirstSampleTookOff ==
    \A p \in IteratedPilots :
        /\ FirstIds(bot, p) # {}
        /\ \A id \in FirstIds(bot, p) : TagSends(bot, p, id) = 0

\* C6, the half that does not need the Pilot: in neither revision does the
\* sample a pilot was created from get a tag-based send attempt.
C6_NeverByOwnTag ==
    \A st \in Loops : \A p \in Names :
        \A id \in FirstIds(st, p) : TagSends(st, p, id) = 0

(***************************************************************************)
(* C7: a send attempt for an unseen point is of the kind its tag fixes     *)
(* (OK Landed; HELP, MOVE, CUSTOM Alert; START ResumedTracking; OFF        *)
(* TrackingStopped); a point with any other tag has no send attempt, and a *)
(* point with one of these tags has one.                                   *)
(***************************************************************************)
KindOfTag ==
    [t \in MessageTags |->
        CASE t = "OK" -> "Landed" [] t = "START" -> "ResumedTracking"
          [] t = "OFF" -> "TrackingStopped" [] OTHER -> "Alert"]

ScenarioFirst ==
    [pts |-> <<Sample("OK", 2, 0), Sample("UNLIMITED-TRACK", 1, 1)>>, Count |-> 1]

ScenarioNext == Append(ScenarioFirst.pts, Sample("OK", 3, 2))

KindsSent(st, p) ==
    LET mine == SelectSeq(st.sent, LAMBDA e : e.pilot = p)
    IN  [i \in 1..Len(mine) |-> mine[i].kind]

C8_Scenario ==
    /\ (cycles = 1 /\ "Han_Solo" \in IteratedPilots
            /\ data.pilots["Han_Solo"] = ScenarioFirst) =>
           /\ "Han_Solo" \in DOMAIN bot.pilots
           /\ bot.pilots["Han_Solo"] = Point(ScenarioFirst.pts[2])
           /\ KindsSent(bot, "Han_Solo") = <<"TookOff">>
    /\ (cycles = 2 /\ "Han_Solo" \in IteratedPilots
            /\ data.pilots["Han_Solo"].pts = ScenarioNext
            /\ FirstIds(bot, "Han_Solo") = {1}) =>
           /\ Sends(bot, "Han_Solo", 2, {"Landed"}) = 1
           /\ bot.pilots["Han_Solo"].unixTime = 3

\* C8 in livetrackbot.run, whose Pilot can be constructed: sample "0" (OK at 2)
\* is newer than sample "1", so the first cycle already sends a Landed for it
\* and leaves last_point at unix time 2; the second cycle adds one Landed.
C8_ScenarioLegacy ==
    /\ (cycles = 1 /\ "Han_Solo" \in IteratedPilots /\ Iterated(legacy)
            /\ data.pilots["Han_Solo"] = ScenarioFirst) =>
           /\ legacy.pilots["Han_Solo"] = Point(ScenarioFirst.pts[1])
           /\ KindsSent(legacy, "Han_Solo") = <<"TookOff", "Landed">>
    /\ (cycles = 2 /\ "Han_Solo" \in IteratedPilots /\ Iterated(legacy)
            /\ data.pilots["Han_Solo"].pts = ScenarioNext
            /\ ~legacy.cur[1].created
            /\ FirstIds(legacy, "Han_Solo") = {1}
            /\ legacy.cur[1].before = Point(ScenarioFirst.pts[1])) =>
           /\ KindsSent(legacy, "Han_Solo") = <<"TookOff", "Landed", "Landed">>
           /\ legacy.pilots["Han_Solo"].unixTime = 3

C8_ScenarioLegacyReached ==
    /\ cycles = 2 /\ "Han_Solo" \in IteratedPilots /\ Iterated(legacy)
    /\ ~legacy.cur[1].created
    /\ data.pilots["Han_Solo"].pts = ScenarioNext
    /\ legacy.cur[1].before = Point(ScenarioFirst.pts[1])
    /\ FirstIds(legacy, "Han_Solo") = {1}

(***************************************************************************)
(* C9: right after a rollover the pilot table and the list of messages are *)
(* empty and one delete request was issued for every entry the list held.  *)
(***************************************************************************)
RolledOver(st) == phase = "fetch" /\ st.alive /\ st.rolled # <<>>

C9_Rollover ==
    \A st \in Loops :
        RolledOver(st) =>
            /\ DOMAIN st.pilots = {}
            /\ st.messages = <<>>
            /\ st.deletes = st.rolled[1]

\* C9 without the count of requests: nothing survives a rollover.
C9_NothingSurvives ==
    \A st \in Loops :
        RolledOver(st) => DOMAIN st.pilots = {} /\ st.messages = <<>>

C11_FetchStep ==
    (phase = "fetch" /\ phase' # "fetch") =>
        /\ (bot.alive /\ bot'.fetched = "RequestException") =>
              /\ bot'.alive /\ phase' = "sleep"
              /\ bot'.errors_total = bot.errors_total + 1
              /\ bot'.requests_total = bot.requests_total
              /\ bot'.pilots = bot.pilots /\ bot'.messages = bot.messages
              /\ bot'.sent = bot.sent /\ bot'.last_update = bot.last_update
        /\ (legacy.alive /\ legacy'.fetched = "RequestException") =>
              /\ legacy'.alive /\ phase' = "sleep"
              /\ legacy'.pilots = legacy.pilots /\ legacy'.messages = legacy.messages
              /\ legacy'.sent = legacy.sent /\ legacy'.last_update = legacy.last_update

C11_TransportError == [][C11_FetchStep]_vars

\* C11 witness: the fetch of the second cycle failed while the table and the
\* list of livetrackbot.run held the pilot and the message of the first.
C11_Witness ==
    /\ cycles = 2 /\ phase = "sleep" /\ legacy.alive
    /\ legacy.fetched = "RequestException"
    /\ DOMAIN legacy.pilots # {} /\ legacy.messages # <<>>

\* C11 in LivetrackBot.run: the failed fetch is the only error counted.
C11_WitnessCounted ==
    /\ cycles = 2 /\ phase = "sleep" /\ bot.alive
    /\ bot.fetched = "RequestException"
    /\ bot.errors_total = 1 /\ bot.requests_total = 1

(***************************************************************************)
(* C12: no payload that is not a well-formed snapshot ends the loop with   *)
(* the exception its shape raises: the loop that fetched it is not left by *)
(* a KeyError or an AttributeError.                                        *)
(***************************************************************************)
Malformed(d) ==
    \/ d.kind = "list"
    \/ \E p \in DOMAIN d.pilots :
          \/ ~HasCount(d.pilots[p])
          \/ ~Comparable(d.pilots[p])
          \/ HasCount(d.pilots[p]) /\ ~HasKey(d.pilots[p], d.pilots[p].Count)

C12_MalformedPayload ==
    \A st \in Loops :
        (st.fetched = "ok" /\ Malformed(data)) =>
            st.exc \notin {"KeyError", "AttributeError"}

\* C12, the part that holds: a body that is not JSON is counted as an error
\* and the cycle is skipped with the loop running.
C12_NotJsonSkipped ==
    \A st \in Loops :
        (st.alive /\ st.fetched = "JSONDecodeError") =>
            phase = "sleep" /\ st.cur = <<>> /\ data = NoData

(***************************************************************************)
(* C13: a send that fails with a bad-request error is caught: no loop is   *)
(* left by the Notifier's BadRequest.                                      *)
(***************************************************************************)
C13_SendFailureCaught == \A st \in Loops : st.exc # "BadRequest"

\* C13, the part that holds: a send that times out is caught, and the
\* iteration goes on to make its attempt for every later unseen point.
C13_TimedOutCaught ==
    \A st \in Loops :
        (Iterated(st) /\ \E i \in 1..Len(st.messages) : st.messages[i] = "None") =>
            \A i \in 1..Len(st.cur[1].unseen) :
                LET v == st.cur[1].unseen[i]
                IN  v.Msg \in MessageTags => TagSends(st, st.cur[1].pilot, v.spotId) = 1

(***************************************************************************)
(* C14: a rollover whose delete requests fail still completes: the loop    *)
(* runs on, the table and the list are empty and last_update is the        *)
(* current date.                                                           *)
(***************************************************************************)
C14_DeleteFailureSkipped ==
    \A st \in Loops :
        (phase = "fetch" /\ st.rolled # <<>> /\ st.exc \in {"", "TimedOut"}) =>
            /\ st.alive
            /\ DOMAIN st.pilots = {} /\ st.messages = <<>>
            /\ st.last_update = today

(***************************************************************************)
(* C15: the polling loop never terminates: no loop is ever left by an      *)
(* exception.                                                              *)
(***************************************************************************)
C15_NeverTerminates == bot.alive /\ legacy.alive

(***************************************************************************)
(* C16: a step that is not a rollover removes no name from the pilot       *)
(* table.                                                                  *)
(***************************************************************************)
C16_Step ==
    /\ ~(phase = "top" /\ bot.last_update < today) =>
           DOMAIN bot.pilots \subseteq DOMAIN bot'.pilots
    /\ ~(phase = "top" /\ legacy.last_update < today) =>
           DOMAIN legacy.pilots \subseteq DOMAIN legacy'.pilots

C16_NoRemovalMidDay == [][C16_Step]_vars

\* C16 witness: Han_Solo landed in the first cycle, the snapshot of the second
\* does not hold the name, and the pilot is still in the table.
C16_Witness ==
    /\ cycles = 2 /\ phase = "sleep" /\ legacy.alive
    /\ legacy.fetched = "ok" /\ data.kind = "dict"
    /\ "Han_Solo" \notin DOMAIN data.pilots
    /\ "Han_Solo" \in DOMAIN legacy.pilots
    /\ \E id \in SampleIds : Sends(legacy, "Han_Solo", id, {"Landed"}) = 1

(***************************************************************************)
(* C19: the send attempts made for a pilot since the last rollover are in  *)
(* non-decreasing order of the unix time of their samples, the TookOff     *)
(* first.                                                                  *)
(***************************************************************************)
SentFor(st, p) == SelectSeq(st.sent, LAMBDA e : e.pilot = p)

C19_OrderByUnixTime ==
    \A st \in Loops : \A p \in Names :
        LET mine == SentFor(st, p)
        IN  /\ \A i \in 1..(Len(mine) - 1) : mine[i].unixTime <= mine[i + 1].unixTime
            /\ \A i \in 1..Len(mine) : mine[i].kind = "TookOff" <=> i = 1

\* C19 witness: three attempts for one pilot, over two cycles, the second for
\* a sample the payload lists before the one the pilot was created from.
C19_Witness ==
    /\ cycles = 2 /\ Iterated(legacy)
    /\ LET mine == SentFor(legacy, "Han_Solo")
       IN  /\ Len(mine) = 3
           /\ mine[1].spotId > mine[2].spotId
           /\ mine[1].unixTime < mine[2].unixTime /\ mine[2].unixTime < mine[3].unixTime
           /\ ~legacy.cur[1].created /\ legacy.cur[1].unseen # <<>>

(***************************************************************************)
(* C20: the list of messages never holds an entry that is not a handle the *)
(* Notifier returned.                                                      *)
(***************************************************************************)
C20_OnlyHandles ==
    \A st \in Loops : \A i \in 1..Len(st.messages) : st.messages[i] # "None"

(***************************************************************************)
(* C17: Point.format_date never raises: every call returns.                *)
(***************************************************************************)
C17_FormatDateTotal ==
    call.fn = "format_date done" => call.result.kind = "return"

\* C17 for the date_time values that are strings: a text of the shape
\* YYYY-MM-DDTHH:MM:SS+ZZZZ that names an existing time yields
\* 'YYYY-MM-DD HH:MM:SS UTC' with the same digits, and every text strptime
\* rejects is returned as it is.
PrimaryPattern(text) ==
    /\ Len(text) = 13
    /\ \A i \in {1, 3, 5, 7, 9, 11, 13} : text[i].c = "N"
    /\ text[1].w = 4 /\ text[13].w = 4
    /\ \A i \in {3, 5, 7, 9, 11} : text[i].w = 2
    /\ <<text[2].c, text[4].c, text[6].c, text[8].c, text[10].c>>
          = <<"-", "-", "T", ":", ":">>
    /\ text[12].c \in {"+", "-"}
    /\ text[3].v \in 1..12 /\ text[5].v \in 1..DaysIn(text[1].v, text[3].v)
    /\ text[7].v \in 0..23 /\ text[9].v \in 0..59 /\ text[11].v \in 0..59
    /\ text[13].v \div 100 \in 0..23 /\ text[13].v % 100 \in 0..59

C17_FormatDateOfStrings ==
    (call.fn = "format_date done" /\ call.date_time.type = "str") =>
        LET text == call.date_time.text
        IN  /\ call.result.kind = "return"
            /\ PrimaryPattern(text) =>
                  call.result.value =
                      Str(SubSeq(text, 1, 5) \o <<Sym(" ")>> \o SubSeq(text, 7, 11)
                            \o <<Sym(" UTC")>>)
            /\ call.result.value # call.date_time =>
                  /\ Len(call.result.value.text) = 12
                  /\ Len(text) >= 12
                  /\ \A i \in {1, 3, 5, 7, 9, 11} :
                        call.result.value.text[i].v = text[i].v

C17_StringsReached ==
    /\ call.fn = "format_date done"
    /\ call.date_time = Str(Timestamp(Num(2, 4), Num(2, 15), Num(2, 11), Num(2, 48),
                                      <<Sym("+"), Num(4, 0)>>))
    /\ call.result.value # call.date_time

WellFormed(points) ==
    /\ HasCount(points) /\ HasKey(points, FirstKey(points))
    /\ \A k \in 1..Len(points.pts) : Complete(points.pts[k])

GaugeEffect(kind) ==
    CASE kind \in {"TookOff", "ResumedTracking"} -> 1
      [] kind \in {"Landed", "TrackingStopped"}  -> -1
      [] OTHER                                   -> 0

RECURSIVE GaugeSum(_)
GaugeSum(unseen) ==
    IF unseen = <<>> THEN 0
    ELSE GaugeEffect(Classify(unseen[1].Msg)) + GaugeSum(Tail(unseen))

\* The iteration of `for pilot, points` that a step makes, if it makes one.
IterationOf(p) == phase = "for" /\ p \in todo /\ p \notin todo'

C21_Iteration ==
    \A p \in Names :
        (IterationOf(p) /\ bot.alive /\ WellFormed(data.pilots[p])) =>
            LET points == data.pilots[p]
                known  == p \in DOMAIN bot.pilots
                wm     == IF known THEN bot.pilots[p] ELSE Point(FirstPoint(points))
                events == GaugeSum(unseen_points(points, wm))
            IN  bot'.pilots_flying =
                    bot.pilots_flying + (IF known THEN 0 ELSE GaugeEffect("TookOff"))
                        + events

C21_GaugeByEvents == [][C21_Iteration]_vars

\* C21, what LivetrackBot.run does: the gauge is never moved.
C21_GaugeNeverMoved == bot.pilots_flying = 0

(***************************************************************************)
(* C22: the get_json call of a cycle adds 1 to exactly one of              *)
(* requests_total and errors_total: to requests_total when the snapshot    *)
(* was fetched and decoded, to errors_total alone otherwise, a response    *)
(* whose body is not JSON included.                                        *)
(***************************************************************************)
FetchOf(st) == phase = "fetch" /\ phase' # "fetch" /\ st.alive

C22_FetchStep ==
    FetchOf(bot) =>
        LET requests == bot'.requests_total - bot.requests_total
            errors   == bot'.errors_total - bot.errors_total
        IN  /\ {requests, errors} = {0, 1}
            /\ requests = 1 <=> bot'.fetched = "ok"

C22_ExactlyOneCounter == [][C22_FetchStep]_vars

\* C22, what get_json does: requests_total counts the responses with a 2xx
\* status, decoded or not, and errors_total the calls that return None after
\* a failure.
C22_CountersOfFetch ==
    FetchOf(bot) =>
        /\ bot'.requests_total - bot.requests_total =
              (IF bot'.fetched \in {"ok", "JSONDecodeError"} THEN 1 ELSE 0)
        /\ bot'.errors_total - bot.errors_total =
              (IF bot'.fetched \in {"RequestException", "JSONDecodeError"} THEN 1 ELSE 0)

C22_WhatIsCounted == [][C22_CountersOfFetch]_vars

(***************************************************************************)
(* C23: whatever the outcome of its sends, a completed iteration leaves    *)
(* last_point at the last unseen point; no sample has more than one send   *)
(* attempt in the whole run; and a cycle that reaches its sleep has made   *)
(* its one get_json call.                                                  *)
(***************************************************************************)
AllKinds == TagKinds \cup {"TookOff"}

WatermarkAdvanced(st) ==
    (Iterated(st) /\ st.cur[1].unseen # <<>>) =>
        st.pilots[st.cur[1].pilot] = st.cur[1].unseen[Len(st.cur[1].unseen)]

FetchedOnce(st) == (phase \in {"for", "sleep"} /\ st.alive) => st.fetched # ""

C23_NeverRetried ==
    \A st \in Loops :
        /\ WatermarkAdvanced(st)
        /\ \A p \in Names, id \in SampleIds : Sends(st, p, id, AllKinds) <= 1
        /\ Attempted(st) \cap st.announced = {}
        /\ FetchedOnce(st)

\* C23 up to the next rollover: the sample of a send that timed out has no
\* second attempt while its pilot stays in the table.
C23_NotRetriedBeforeRollover ==
    \A st \in Loops :
        /\ WatermarkAdvanced(st)
        /\ \A p \in Names, id \in SampleIds : Sends(st, p, id, AllKinds) <= 1
        /\ FetchedOnce(st)

\* A second cycle of livetrackbot.run, on the same date, over a pilot one of
\* whose sends timed out in the first: nothing is sent again.
C23_TimedOutNotRetried ==
    /\ cycles = 2 /\ Iterated(legacy) /\ legacy.rolled = <<>>
    /\ ~legacy.cur[1].created /\ legacy.cur[1].unseen = <<>>
    /\ legacy.messages = <<"Message", "None">>
    /\ Len(SentFor(legacy, legacy.cur[1].pilot)) = 2

(***************************************************************************)
(* C24: the rollover block is entered in a cycle if and only if the        *)
(* current date is later than last_update; the first cycle enters it; a    *)
(* cycle on the date of the last rollover does not; last_update never      *)
(* decreases, also when the clock goes back; and the block is entered at   *)
(* most once on any one date.                                              *)
(***************************************************************************)
TopOf(st) == phase = "top" /\ phase' = "fetch" /\ st.alive

RolloverIffLater(st, st2) ==
    /\ st2.rolled # <<>> <=> st.last_update < today
    /\ Len(st2.rolledOn) = Len(st.rolledOn) + (IF st.last_update < today THEN 1 ELSE 0)
    /\ cycles = 0 => st2.rolled # <<>>
    /\ (st.rolledOn # <<>> /\ st.rolledOn[Len(st.rolledOn)] = today)
          => st2.rolled = <<>> /\ st2.pilots = st.pilots /\ st2.messages = st.messages

C24_Step ==
    /\ TopOf(bot) => RolloverIffLater(bot, bot')
    /\ TopOf(legacy) => RolloverIffLater(legacy, legacy')
    /\ bot'.last_update >= bot.last_update
    /\ legacy'.last_update >= legacy.last_update

OncePerDate(st) ==
    \A i, j \in 1..Len(st.rolledOn) : st.rolledOn[i] = st.rolledOn[j] => i = j

C24_WitnessSameDate ==
    /\ cycles = 2 /\ phase = "fetch" /\ legacy.alive
    /\ legacy.rolledOn = <<1>> /\ legacy.rolled = <<>> /\ today = 1
    /\ DOMAIN legacy.pilots # {}

\* C24 witness of a rollover on each of two dates.
C24_WitnessTwoDates ==
    /\ cycles = 2 /\ phase = "fetch" /\ legacy.alive
    /\ legacy.rolledOn = <<1, 2>> /\ legacy.rolled # <<>>

(***************************************************************************)
(* C25: Point.__init__ fails with a DecodeError on a sample record in      *)
(* which a required field is absent or holds a value of another type than  *)
(* the declared one, and builds a Point from no such record.               *)
(***************************************************************************)
WellTyped(json_dict) ==
    /\ PointKeys \subseteq DOMAIN json_dict
    /\ \A key \in PointKeys : json_dict[key] = TypeOf(key)

C25_DecodeError ==
    call.fn = "Point done" =>
        IF WellTyped(call.json_dict)
        THEN call.result.kind = "return"
        ELSE call.result = Raised("DecodeError")

\* C25, what Point.__init__ does: KeyError when a key is absent, and otherwise
\* a Point that holds the values of the record as they are, of whatever type.
C25_PointAsBuilt ==
    call.fn = "Point done" =>
        IF PointKeys \subseteq DOMAIN call.json_dict
        THEN /\ call.result.kind = "return"
             /\ \A i \in DOMAIN PointFields :
                   call.result.value[PointFields[i].attr]
                       = call.json_dict[PointFields[i].key]
        ELSE call.result = Raised("KeyError")

\* A Point whose date_time is None and whose unix_time is a str.
C25_WronglyTypedPoint ==
    /\ call.fn = "Point done" /\ call.result.kind = "return"
    /\ call.result.value.date_time = "NoneType"
    /\ call.result.value.unix_time = "str"

Own(st, p, points) ==
    LET known == p \in DOMAIN st.pilots
        wm    == IF known THEN st.pilots[p] ELSE Point(FirstPoint(points))
        u     == unseen_points(points, wm)
        told  == SelectSeq(u, LAMBDA v : Classify(v.Msg) # "Ignored")
    IN  [last_point |-> IF u = <<>> THEN wm ELSE u[Len(u)],
         sends      |-> (IF known THEN <<>> ELSE <<Entry(p, "TookOff", wm)>>)
                          \o [i \in 1..Len(told) |->
                                 Entry(p, Classify(told[i].Msg), told[i])]]

Frame(st, st2, p) ==
    (st.alive /\ st2.alive) =>
        /\ \A q \in Names \ {p} :
              /\ q \in DOMAIN st2.pilots <=> q \in DOMAIN st.pilots
              /\ q \in DOMAIN st.pilots => st2.pilots[q] = st.pilots[q]
        /\ st2.pilots[p] = Own(st, p, data.pilots[p]).last_point
        /\ st2.sent = st.sent \o Own(st, p, data.pilots[p]).sends

C27_Step ==
    /\ \A p \in Names :
          IterationOf(p) => Frame(bot, bot', p) /\ Frame(legacy, legacy', p)
    /\ (phase \in {"fetch", "sleep"}) =>
          /\ bot'.pilots = bot.pilots /\ bot'.sent = bot.sent
          /\ legacy'.pilots = legacy.pilots /\ legacy'.sent = legacy.sent

\* The end of the first cycle, which starts from an empty table.
C27_FirstCycle ==
    \A st \in Loops :
        (cycles = 1 /\ phase = "sleep" /\ st.alive /\ st.fetched = "ok"
            /\ Truthy(data)) =>
            /\ DOMAIN st.pilots = DOMAIN data.pilots
            /\ \A p \in DOMAIN data.pilots :
                  /\ st.pilots[p] = Own(InitLoop(st.rev), p, data.pilots[p]).last_point
                  /\ SentFor(st, p) = Own(InitLoop(st.rev), p, data.pilots[p]).sends
            /\ \A i \in 1..Len(st.sent) : st.sent[i].pilot \in DOMAIN data.pilots

C27_PerPilot == [][C27_Step]_vars /\ [](C27_FirstCycle)

\* C27 witness: in its second cycle livetrackbot.run announced a new landing
\* of one pilot while the other pilot, absent from the snapshot, was in the
\* table.
C27_Witness ==
    /\ cycles = 2 /\ Iterated(legacy)
    /\ ~legacy.cur[1].created /\ legacy.cur[1].unseen # <<>>
    /\ \E q \in DOMAIN legacy.pilots :
          q # legacy.cur[1].pilot /\ q \notin DOMAIN data.pilots

\* C27 witness of the two orders of iteration.
C27_WitnessOrder ==
    /\ cycles = 1 /\ phase = "sleep" /\ legacy.alive
    /\ DOMAIN data.pilots = Names /\ Len(legacy.sent) = 3
    /\ legacy.sent[1].pilot = "Yoda"

(***************************************************************************)
(* C28: a sample that had a send attempt before a rollover has none after  *)
(* it: no sample is notified on two sides of a rollover.                   *)
(***************************************************************************)
C28_NoRenotification ==
    \A st \in Loops :
        \A i \in 1..Len(st.sent) :
            <<st.sent[i].pilot, st.sent[i].spotId>> \notin st.announced

\* C28, what the first cycle after a rollover does with a snapshot that still
\* holds the samples of the day before: the pilot is created again and its
\* Count sample announced as TookOff again.
C28_AnnouncedAgain ==
    /\ cycles = 2 /\ phase = "sleep" /\ legacy.alive /\ legacy.rolled # <<>>
    /\ legacy.announced = {<<"Han_Solo", 0>>}
    /\ KindsSent(legacy, "Han_Solo") = <<"TookOff", "Landed">>
    /\ legacy.sent[1].spotId = 0

(***************************************************************************)
(* C29: LivetrackBot.run and livetrackbot.run, fed the same dates, fetch   *)
(* results and Notifier outcomes, keep the same pilot table, lists of      *)
(* messages of the same length and the same sequence of send attempts.     *)
(***************************************************************************)
SharedState(st) ==
    [pilots   |-> [p \in DOMAIN st.pilots |-> st.pilots[p].unixTime],
     messages |-> Len(st.messages),
     sent     |-> [i \in 1..Len(st.sent) |->
                      <<st.sent[i].pilot, st.sent[i].kind, st.sent[i].spotId>>]]

C29_RevisionsEquivalent == SharedState(bot) = SharedState(legacy)

\* C29 as far as LivetrackBot.run gets: the two agree until it is left.
C29_EquivalentWhileRunning ==
    bot.alive => legacy.alive /\ SharedState(bot) = SharedState(legacy)

====
